---- MODULE Spec2Model ----
(***************************************************************************)
(* tap-sendgrid: the extraction engine of src/tap_sendgrid/http.py and     *)
(* src/tap_sendgrid/syncs.py as one sequential state machine.              *)
(*                                                                         *)
(* One Python thread runs Syncer.sync: pc is its position, the remaining   *)
(* variables are the Context (bookmarks, clock), the locals of the active  *)
(* incremental strategy, of the active generator (cursor) and of the       *)
(* active retry_get call.  The answers of the remote API are drawn from    *)
(* ResponsesFor each time a request is sent.  An uncaught exception ends   *)
(* the invocation at pc = "failed".                                        *)
(***************************************************************************)
EXTENDS Integers, Sequences, FiniteSets, TLC

VARIABLES
    authed_get_binding, \* what the name authed_get resolves to inside http.py
    api_outages,        \* whether the API answers 5xx at times in this invocation
    config,             \* ctx.config: [start_date]
    now,                \* ctx.now / ctx.now_seconds of the current invocation
    state,              \* ctx.state: bookmark per stream id (<<>> = none, <<t>> = t)
    persisted,          \* the state last emitted by ctx.write_state()
    write_states,       \* number of write_state calls of this invocation
    selected_catalog,   \* ctx.selected_catalog: sequence of stream descriptors
    cache,              \* ctx.cache: the parent entities seen, per stream type
    member_counts,      \* ctx.state: member count recorded per stream and parent id
    log,                \* what sync has started and finished, in order
    pc,                 \* position of the thread
    exc,                \* the exception that ended the invocation, or "none"
    idx,                \* sync_incrementals: index of cat_entry
    stream,             \* the stream of the running strategy
    start,              \* strategy local: start
    end,                \* strategy local: end
    bookmark_read,      \* bookmark of the stream when the strategy started
    sets,               \* values given to set_bookmark by the running strategy
    days,               \* sync_timestamp: discrete_days_since_start(start)
    day_i,              \* sync_timestamp: index into days
    term_i,             \* sync_timestamp: index into the two search terms
    fetches,            \* retry_get calls made for the running strategy
    searches,           \* get_using_paged cursors run for the running strategy
    written,            \* write_records calls made for the running strategy
    entity_i,           \* sync_member_count: index into ctx.cache[stream_type]
    old_list_count,     \* sync_member_count local
    refreshed,          \* sync_member_count: parents given to get_and_write_members
    gen,                \* the active generator: "none", "paged", "offset", "limits"
    page,               \* get_using_paged local
    page_attempts,      \* get_using_paged local
    offset,             \* get_using_offset / get_members_limits local
    calls,              \* params of the retry_get calls made by the active generator
    yielded,            \* what the active generator has yielded, in order
    resp,               \* the response retry_get returned to the generator
    attempt,            \* retry_get local
    delay,              \* retry_get local
    r,                  \* retry_get local: the latest response
    requests,           \* requests sent by the running retry_get call
    headers,            \* authed_get local: the header names of its latest call
    sleeps              \* time.sleep arguments of the running retry_get call

vars == << authed_get_binding, api_outages, config, now, state, persisted, write_states,
           selected_catalog, cache, member_counts, log,
           pc, exc, idx, stream, start, end, bookmark_read, sets,
           days, day_i, term_i, fetches, searches, written,
           entity_i, old_list_count, refreshed, gen, page,
           page_attempts, offset, calls, yielded, resp, attempt, delay, r,
           requests, headers, sleeps >>

ctx_vars      == << authed_get_binding, api_outages, config, now, state, persisted, write_states,
                    selected_catalog, cache, member_counts, log >>
counts        == << fetches, searches, written >>
member_vars   == << entity_i, old_list_count, refreshed >>
strategy_vars == << idx, stream, start, end, bookmark_read, sets, days, day_i,
                    term_i, counts, member_vars >>
gen_vars      == << gen, page, page_attempts, offset, calls, yielded, resp >>
retry_vars    == << attempt, delay, r, requests, headers, sleeps >>

----------------------------------------------------------------------------
(* Bounds of the model. *)

MaxTime    == 4   \* timestamps are 0 .. MaxTime
MaxFetches == 4   \* retry_get calls one generator may make
MaxStrategyFetches == 6   \* retry_get calls one strategy may make
DayLen     == 2   \* timestamps per calendar day

(* Program constants. *)

retries         == 20       \* http.py:37
initial_delay   == 120      \* http.py:38
backoff_num     == 3        \* http.py:39  backoff = 1.5 = 3/2
backoff_den     == 2        \* http.py:39
offset_limit    == 500      \* syncs.py:201
members_limit   == 250000   \* syncs.py:136
max_page_attempts == 3      \* syncs.py:187
empty_message   == "No more pages"   \* http.py:25

----------------------------------------------------------------------------
(* Values. *)

Times == 0 .. MaxTime

(* An optional value is a sequence of length 0 or 1. *)
None      == << >>
Some(v)   == << v >>
IsSome(o) == Len(o) = 1
Val(o)    == o[1]

(* A Python float that is a multiple of 1/FracUnit: whole + frac/FracUnit.  *)
(* 120 * 1.5^k is 15 * 3^k / 2^(k-3), a multiple of 2^-17 for k <= 20 and    *)
(* below 2^53, so the float arithmetic of delay *= 1.5 is exact.            *)
FracUnit == 2^17

Float(w, f) == [whole |-> w + (f \div FracUnit), frac |-> f % FracUnit]

(* x * num / den for a float x: multiply, then divide the whole part and    *)
(* carry its remainder into the fraction.                                   *)
FloatMul(x, num, den) ==
    LET w == x.whole * num
        f == x.frac * num
    IN  Float(w \div den, ((w % den) * FracUnit + f) \div den)

FloatLess(x, y) == \/ x.whole < y.whole
                   \/ x.whole = y.whole /\ x.frac < y.frac

NoDelay == Float(0, 0)

(* The body of a response.  kind "bad" is not JSON; "list" is a bare list   *)
(* of `items` records; "dict" is an object whose keys may be recipients (a  *)
(* list of `items` records), recipient_count and errors (a list of          *)
(* messages, each the 'message' of one error entry).  The records of a list *)
(* of parent entities (groups, segments) are given in `entities`, each with *)
(* its id and member_count.                                                 *)
Body(kind, recipients, recipient_count, errors) ==
    [kind |-> kind, recipients |-> recipients,
     recipient_count |-> recipient_count, errors |-> errors, entities |-> << >>]

BadBody     == Body("bad", None, None, None)
ListBody(n) == Body("list", Some(n), None, None)

Entity(id, member_count) == [id |-> id, member_count |-> member_count]

EntityIds    == {1, 2}
MemberCounts == {10, 15}

EntitiesBody(es) == [ListBody(Len(es)) EXCEPT !.entities = es]

(* The lists of parent entities the API may answer with: none, entity 1, or *)
(* entities 1 and 2, with any of the member counts.                         *)
EntityBatches ==
    { << >> } \cup
    { << Entity(1, c) >> : c \in MemberCounts } \cup
    { << Entity(1, c), Entity(2, d) >> : c \in MemberCounts, d \in MemberCounts }

ErrorLists == { << >>, << empty_message >>, << "Not found" >>,
                << "Not found", empty_message >> }

(* Pages of recipients, with or without a count, and error bodies. *)
DictBodies ==
    { Body("dict", rs, rc, None) :
        rs \in {None, Some(0), Some(2)}, rc \in {None, Some(0), Some(2)} }
    \cup
    { Body("dict", None, rc, Some(e)) :
        rc \in {None, Some(0), Some(2)}, e \in ErrorLists }

Response(status, body) == [status_code |-> status, body |-> body]

NoResponse == Response(0, BadBody)

(* The bookmark of a stream descriptor that has none. *)
NoBookmark == "none"

(* What the API may answer to a request of each generator.  The body of a   *)
(* 5xx answer is never decoded by the code, so one body stands for all.     *)
ServerErrors == { Response(s, BadBody) : s \in {500, 503} }

ResponsesFor(g) ==
    (IF api_outages THEN ServerErrors ELSE {}) \cup
    IF g = "paged"
    THEN { Response(s, b) : s \in {200, 404}, b \in DictBodies \cup {BadBody} }
    ELSE IF g = "offset" /\ stream.bookmark = NoBookmark
    THEN { Response(200, b) :
             b \in {BadBody} \cup { EntitiesBody(es) : es \in EntityBatches } }
    ELSE IF g = "offset"
    THEN { Response(200, b) :
             b \in {BadBody} \cup { ListBody(n) : n \in {0, 10, offset_limit} } }
    ELSE IF g = "single"
    THEN { Response(200, b) :
             b \in {BadBody} \cup { ListBody(n) : n \in {0, 10} } }
    ELSE { Response(200, b) :
             b \in {BadBody} \cup { ListBody(n) : n \in {0, 10, members_limit} } }

----------------------------------------------------------------------------
(* http.py *)

(* A decoder that takes anything for JSON. *)
Decodes_Anything(resp_) == resp_.body.kind \in {"bad", "list", "dict"}

(* r.json(): the decoded body, or JSONDecodeError. *)
Decodes(resp_) == resp_.body.kind # "bad"

(* len() of a decoded body. *)
PyLen(body) ==
    IF body.kind = "list" THEN Val(body.recipients)
    ELSE (IF IsSome(body.recipients) THEN 1 ELSE 0)
         + (IF IsSome(body.recipient_count) THEN 1 ELSE 0)
         + (IF IsSome(body.errors) THEN 1 ELSE 0)

(* end_of_records_check(r) for a response with a decoded dict body:         *)
(* "True", "False" or the exception the evaluation raises.                  *)
FirstBranchRaises(rr) ==
    rr.status_code = 404 /\ IsSome(rr.body.errors) /\ Len(Val(rr.body.errors)) = 0

(* A predicate that looks for the sentinel in every error entry. *)
FirstBranchTrue_AnyEntry(rr) ==
    /\ rr.status_code = 404
    /\ IsSome(rr.body.errors)
    /\ \E i \in 1 .. Len(Val(rr.body.errors)) : Val(rr.body.errors)[i] = empty_message

FirstBranchTrue(rr) ==
    /\ rr.status_code = 404
    /\ IF IsSome(rr.body.errors)
       THEN Val(rr.body.errors)[1] = empty_message
       ELSE FALSE   \* .get('errors', [{}])[0].get('message') is None

end_of_records_check(rr) ==
    IF FirstBranchRaises(rr) THEN "IndexError"
    ELSE IF FirstBranchTrue(rr) THEN "True"
    ELSE IF rr.body.recipient_count = Some(0) THEN "True"
    ELSE "False"

----------------------------------------------------------------------------
(* streams.py: the stream descriptors the catalog may select; bookmark is   *)
(* the tag that names the incremental strategy sync_<tag>.                  *)
Stream(id, tag) == [tap_stream_id |-> id, bookmark |-> tag]

Streams == { Stream("contacts", "timestamp"),
             Stream("global_suppressions", "end_time"),
             Stream("lists_members", "member_count_limits"),
             Stream("groups_all", NoBookmark),
             Stream("segments_all", NoBookmark),
             Stream("groups_members", "member_count"),
             Stream("segments_members", "member_count") }

StreamIds == { s.tap_stream_id : s \in Streams }

NoStream == Stream("none", "none")

(* The single fetch given to the members of segments. *)
GROUPS_MEMBERS_Segments == "segments_members"

(* IDS.GROUPS_MEMBERS. *)
GROUPS_MEMBERS == "groups_members"

(* utils.trim_members_all: the stream type of a stream id, which is the key *)
(* of its parent entities in ctx.cache.                                     *)
trim_members_all(id) ==
    IF id \in {"groups_all", "groups_members"} THEN "groups"
    ELSE IF id \in {"segments_all", "segments_members"} THEN "segments"
    ELSE id

StreamTypes == {"groups", "segments"}

MemberStreamIds == { s.tap_stream_id : s \in { t \in Streams : t.bookmark = "member_count" } }

StreamOf(id) == CHOOSE s \in Streams : s.tap_stream_id = id

(* The catalogs of the model: one stream, or two streams in either order.   *)
(* A member_count stream is selected together with the stream of its parent *)
(* entities; segments_members comes before segments_all.                    *)
SingleStreams == { StreamOf(id) :
                     id \in {"contacts", "global_suppressions", "lists_members",
                             "groups_all"} }

PairedStreams == { << StreamOf(a), StreamOf(b) >> :
                     << a, b >> \in { << "contacts", "global_suppressions" >>,
                                      << "global_suppressions", "contacts" >>,
                                      << "contacts", "lists_members" >>,
                                      << "lists_members", "contacts" >>,
                                      << "global_suppressions", "lists_members" >>,
                                      << "lists_members", "global_suppressions" >>,
                                      << "groups_all", "global_suppressions" >>,
                                      << "global_suppressions", "groups_all" >>,
                                      << "groups_all", "groups_members" >>,
                                      << "groups_members", "groups_all" >>,
                                      << "segments_members", "segments_all" >> } }

Catalogs == { << s >> : s \in SingleStreams } \cup PairedStreams

----------------------------------------------------------------------------
(* The frames of the thread. *)

NoGen == /\ gen' = "none"
         /\ page' = 0
         /\ page_attempts' = 0
         /\ offset' = 0
         /\ calls' = << >>
         /\ yielded' = << >>
         /\ resp' = NoResponse

NoStrategy == /\ stream' = NoStream
              /\ start' = 0
              /\ end' = 0
              /\ bookmark_read' = None
              /\ sets' = << >>
              /\ days' = << >>
              /\ day_i' = 0
              /\ term_i' = 0
              /\ fetches' = 0
              /\ searches' = 0
              /\ written' = 0
              /\ entity_i' = 0
              /\ old_list_count' = 0
              /\ refreshed' = << >>

(* An exception that sync_incrementals catches, to go on with line 34. *)
Raise_Caught(e) == /\ pc' = "write_state"
                   /\ exc' = e

(* An exception no frame catches ends the invocation; the frames are kept   *)
(* as they were when it was raised.                                         *)
Raise(e) == /\ pc' = "failed"
            /\ exc' = e

(* ctx.state, as write_state emits it. *)
ctx_state == [bookmarks |-> state, member_counts |-> member_counts]

(* The initial states the model explores.  A catalog of one stream starts   *)
(* from any bookmark of that stream (the start date, which is then not      *)
(* read, is 0) or from none and any start date; a catalog of two streams    *)
(* starts from no bookmarks, at start date 0 and clock 0.  Streams that are *)
(* not selected, and streams whose bookmark is not a time, have no bookmark *)
(* value.  A catalog with the day-windowed stream starts at clock 0 or      *)
(* MaxTime, from start date 0 and from no bookmark or a bookmark of 1 or    *)
(* MaxTime.  Invocations that meet 5xx answers select one stream and start  *)
(* from no bookmarks, at start date 0 and clock 0.                          *)
HasTimestampStream(catalog) ==
    \E i \in 1 .. Len(catalog) : catalog[i].bookmark = "timestamp"

(* The bookmarks ctx.state may hold at the start: none, or one of the first *)
(* selected stream.                                                         *)
NoBookmarks == [id \in StreamIds |-> None]

InitialBookmarks(catalog) ==
    { NoBookmarks } \cup
    { [NoBookmarks EXCEPT ![catalog[1].tap_stream_id] = Some(t)] : t \in Times }

HasBookmarkValue(s) == s.bookmark \in {"timestamp", "end_time", "member_count_limits"}

(* The member counts a bookmark may record for the parent entities: none    *)
(* (0), or the same count for each.                                         *)
RecordedCounts == { [e \in EntityIds |-> c] : c \in {0} \cup MemberCounts }

(* The member counts ctx.state may hold at the start: those of the selected *)
(* member_count streams.                                                    *)
InitialMemberCounts(catalog) ==
    { [id \in MemberStreamIds |->
          IF \E i \in 1 .. Len(catalog) : catalog[i].tap_stream_id = id
          THEN c ELSE [e \in EntityIds |-> 0]] : c \in RecordedCounts }

InitSample(cfg, clock, catalog, bookmarks, outages) ==
    /\ \A s \in Streams : ~HasBookmarkValue(s) => bookmarks[s.tap_stream_id] = None
    /\ outages => /\ \A id \in StreamIds : bookmarks[id] = None
                  /\ cfg.start_date = 0
                  /\ clock = 0
                  /\ Len(catalog) = 1
    /\ \A id \in StreamIds :
         (\A i \in 1 .. Len(catalog) : catalog[i].tap_stream_id # id)
            => bookmarks[id] = None
    /\ HasTimestampStream(catalog) =>
            /\ cfg.start_date = 0
            /\ clock \in {0, MaxTime}
            /\ \A id \in StreamIds :
                  bookmarks[id] \in {None, Some(1), Some(MaxTime)}
    /\ IF Len(catalog) = 1
       THEN IsSome(bookmarks[catalog[1].tap_stream_id]) => cfg.start_date = 0
       ELSE /\ \A id \in StreamIds : bookmarks[id] = None
            /\ cfg.start_date = 0
            /\ clock = 0

Init ==
    /\ authed_get_binding \in {"http.authed_get", "patched"}
    /\ api_outages \in BOOLEAN
    /\ config \in [start_date : Times]
    /\ now \in Times
    /\ selected_catalog \in Catalogs
    /\ state \in InitialBookmarks(selected_catalog)
    /\ InitSample(config, now, selected_catalog, state, api_outages)
    /\ cache = [t \in StreamTypes |-> << >>]
    /\ member_counts \in InitialMemberCounts(selected_catalog)
    /\ log = << >>
    /\ persisted = ctx_state
    /\ write_states = 0
    /\ pc = "sync"
    /\ exc = "none"
    /\ idx = 0
    /\ stream = NoStream
    /\ start = 0
    /\ end = 0
    /\ bookmark_read = None
    /\ sets = << >>
    /\ days = << >>
    /\ day_i = 0
    /\ term_i = 0
    /\ fetches = 0
    /\ searches = 0
    /\ written = 0
    /\ entity_i = 0
    /\ old_list_count = 0
    /\ refreshed = << >>
    /\ gen = "none"
    /\ page = 0
    /\ page_attempts = 0
    /\ offset = 0
    /\ calls = << >>
    /\ yielded = << >>
    /\ resp = NoResponse
    /\ attempt = 0
    /\ delay = NoDelay
    /\ r = NoResponse
    /\ requests = 0
    /\ headers = {}
    /\ sleeps = << >>

----------------------------------------------------------------------------
(* http.py: retry_get and authed_get *)

(* Where retry_get returns to: the generator that called it, or            *)
(* get_and_write_members.                                                   *)
GotLabel == IF gen = "paged" THEN "paged_got"
            ELSE IF gen = "offset" THEN "offset_got"
            ELSE IF gen = "single" THEN "members_got"
            ELSE "limits_got"

(* retry_get, lines 37-40. *)
RetryGetEnter ==
    /\ pc = "retry_get"
    /\ attempt' = 1
    /\ delay' = Float(initial_delay, 0)
    /\ r' = NoResponse
    /\ requests' = 0
    /\ sleeps' = << >>
    /\ pc' = "retry_while"
    /\ UNCHANGED << ctx_vars, strategy_vars, gen_vars, exc, headers >>

(* A retry_get that stops one attempt early. *)
HasRetriesLeft_Early(a) == retries > a

(* retry_get, line 41: the loop condition. *)
HasRetriesLeft(a) == retries >= a

(* retry_get, line 41, and lines 52-54 when the loop ends. *)
RetryWhile ==
    /\ pc = "retry_while"
    /\ IF HasRetriesLeft(attempt)
       THEN pc' = "retry_attempt" /\ exc' = exc
       ELSE Raise("ValueError")
    /\ UNCHANGED << ctx_vars, strategy_vars, gen_vars, retry_vars >>

(* authed_get, lines 16-17: headers is a dict, and dict has no extend, so   *)
(* the function of http.py raises AttributeError before it sends anything.  *)
(* A request is sent only where the name authed_get is bound to a           *)
(* replacement that merges the header as intended.                          *)
HeadersExtendRaises == authed_get_binding = "http.authed_get"

(* http.py line 12, and authed_get line 16: the names of the headers. *)
CUSTOM_HEADERS == {"X-SGUID"}
BearerHeaders  == {"Authorization"}

(* A retry_get that also retries 4xx answers. *)
ShouldRetry_ClientErrors(rr) == rr.status_code >= 400

(* retry_get, line 43. *)
ShouldRetry(rr) == rr.status_code >= 500

(* A retry_get whose delay doubles. *)
NextDelay_Doubling(d) == FloatMul(d, 2, 1)

(* retry_get, line 48. *)
NextDelay(d) == FloatMul(d, backoff_num, backoff_den)

(* retry_get, lines 42-51, one round of the loop: authed_get (lines 15-21)  *)
(* builds the headers and sends the request; on a 5xx answer retry_get      *)
(* sleeps, backs off and goes round, on any other it returns the answer and *)
(* its frame is gone.                                                       *)
RetryAttempt ==
    /\ pc = "retry_attempt"
    /\ IF HeadersExtendRaises
       THEN /\ headers' = BearerHeaders
            /\ Raise("AttributeError")
            /\ UNCHANGED << attempt, delay, r, requests, sleeps, resp >>
       ELSE /\ headers' = BearerHeaders \cup CUSTOM_HEADERS
            /\ \E answer \in ResponsesFor(gen) :
                 /\ r' = answer
                 /\ IF ShouldRetry(answer)
                    THEN /\ requests' = requests + 1
                         /\ sleeps' = Append(sleeps, delay)
                         /\ delay' = NextDelay(delay)
                         /\ attempt' = attempt + 1
                         /\ pc' = "retry_while"
                         /\ UNCHANGED resp
                    ELSE /\ resp' = answer
                         /\ pc' = GotLabel
                         /\ attempt' = 0
                         /\ delay' = NoDelay
                         /\ requests' = 0
                         /\ sleeps' = << >>
            /\ exc' = exc
    /\ UNCHANGED << ctx_vars, strategy_vars, gen, page, page_attempts, offset,
                    calls, yielded >>

----------------------------------------------------------------------------
(* utils.py and context.py, as the strategies use them. *)

(* get_results_from_payload: the number of records of a decoded body. *)
get_results_from_payload(body) ==
    IF IsSome(body.recipients) THEN Val(body.recipients) ELSE 0

(* ctx.update_start_date_bookmark(stream.bookmark): the bookmark of the     *)
(* stream, or the configured start date when there is none.                 *)
update_start_date_bookmark(id) ==
    IF IsSome(state[id]) THEN Val(state[id]) ELSE config.start_date

(* ctx.set_bookmark(stream.bookmark, value). *)
set_bookmark(id, value) ==
    /\ state' = [state EXCEPT ![id] = Some(value)]
    /\ sets' = Append(sets, value)

(* ctx.now_date_str() and ctx.ts_to_dt(ctx.now_seconds): the current time. *)
now_date_str == now
now_seconds  == now
ts_to_dt(ts) == ts

----------------------------------------------------------------------------
(* syncs.py: the generators *)

(* Where a generator hands a yielded value to: the loop body of the         *)
(* function that consumes it.                                               *)
BodyLabel == IF gen = "paged" THEN "paged_records_body"
             ELSE IF gen = "limits" THEN "limits_body"
             ELSE IF stream.bookmark = "end_time" THEN "end_time_body"
             ELSE "alls_body"

(* Where the consumer goes on when the generator is exhausted. *)
AfterLabel == IF gen = "paged" THEN "paged_records_return"
              ELSE IF stream.bookmark = NoBookmark THEN "alls_next"
              ELSE "write_state"

(* A generator object is created; its body runs from the top at the first   *)
(* next(): get_using_paged lines 168-171, get_using_offset lines 200-202,   *)
(* get_members_limits lines 135-137.                                        *)
StartGen(g) ==
    /\ gen' = g
    /\ page' = IF g = "paged" THEN 1 ELSE 0
    /\ page_attempts' = 0
    /\ offset' = 0
    /\ calls' = << >>
    /\ yielded' = << >>
    /\ resp' = NoResponse
    /\ pc' = IF g = "paged" THEN "paged_fetch"
             ELSE IF g = "offset" THEN "offset_fetch"
             ELSE "limits_fetch"

(* get_using_offset, lines 205-215: the call of retry_get. *)
OffsetFetch ==
    /\ pc = "offset_fetch"
    /\ Len(calls) < MaxFetches
    /\ fetches < MaxStrategyFetches
    /\ calls' = Append(calls, offset)
    /\ fetches' = fetches + 1
    /\ pc' = "retry_get"
    /\ UNCHANGED << ctx_vars, idx, stream, start, end, bookmark_read, sets, days,
                    day_i, term_i, searches, written, member_vars,
                    retry_vars, exc,
                    gen, page, page_attempts, offset, yielded, resp >>

(* get_using_offset, lines 205 and 215-216: .json(), then yield r. *)
OffsetGot ==
    /\ pc = "offset_got"
    /\ IF Decodes(resp)
       THEN /\ yielded' = Append(yielded, get_results_from_payload(resp.body))
            /\ pc' = BodyLabel
            /\ exc' = exc
       ELSE /\ Raise("JSONDecodeError")
            /\ UNCHANGED yielded
    /\ UNCHANGED << ctx_vars, strategy_vars, retry_vars,
                    gen, page, page_attempts, offset, calls, resp >>

(* A cursor that stops on a batch of exactly the limit. *)
OffsetHasMore_Strict(n) == n > offset_limit

(* get_using_offset, line 217: is there another batch to fetch? *)
OffsetHasMore(n) == n >= offset_limit

(* get_using_offset, lines 217-220. *)
OffsetResume ==
    /\ pc = "offset_resume"
    /\ IF OffsetHasMore(yielded[Len(yielded)])
       THEN /\ offset' = offset + offset_limit
            /\ pc' = "offset_fetch"
       ELSE /\ pc' = AfterLabel
            /\ UNCHANGED offset
    /\ UNCHANGED << ctx_vars, strategy_vars, retry_vars, exc,
                    gen, page, page_attempts, calls, yielded, resp >>

(* get_members_limits, lines 140-148: the call of retry_get. *)
LimitsFetch ==
    /\ pc = "limits_fetch"
    /\ Len(calls) < MaxFetches
    /\ fetches < MaxStrategyFetches
    /\ calls' = Append(calls, offset)
    /\ fetches' = fetches + 1
    /\ pc' = "retry_get"
    /\ UNCHANGED << ctx_vars, idx, stream, start, end, bookmark_read, sets, days,
                    day_i, term_i, searches, written, member_vars,
                    retry_vars, exc,
                    gen, page, page_attempts, offset, yielded, resp >>

(* get_members_limits, lines 149-154: yield r.json(), or ValueError. *)
LimitsGot ==
    /\ pc = "limits_got"
    /\ IF Decodes(resp)
       THEN /\ yielded' = Append(yielded, PyLen(resp.body))
            /\ pc' = BodyLabel
            /\ exc' = exc
       ELSE /\ Raise("ValueError")
            /\ UNCHANGED yielded
    /\ UNCHANGED << ctx_vars, strategy_vars, retry_vars,
                    gen, page, page_attempts, offset, calls, resp >>

(* A cursor that stops on a batch shorter than the limit. *)
LimitsHasMore_Short(n) == n >= members_limit

(* get_members_limits, line 155: is there another batch to fetch? *)
LimitsHasMore(n) == n # 0

(* get_members_limits, lines 155-158. *)
LimitsResume ==
    /\ pc = "limits_resume"
    /\ IF LimitsHasMore(PyLen(resp.body))
       THEN /\ offset' = offset + members_limit
            /\ pc' = "limits_fetch"
       ELSE /\ pc' = AfterLabel
            /\ UNCHANGED offset
    /\ UNCHANGED << ctx_vars, strategy_vars, retry_vars, exc,
                    gen, page, page_attempts, calls, yielded, resp >>

(* get_using_paged, lines 174-182: the call of retry_get. *)
PagedFetch ==
    /\ pc = "paged_fetch"
    /\ Len(calls) < MaxFetches
    /\ fetches < MaxStrategyFetches
    /\ calls' = Append(calls, page)
    /\ fetches' = fetches + 1
    /\ pc' = "retry_get"
    /\ UNCHANGED << ctx_vars, idx, stream, start, end, bookmark_read, sets, days,
                    day_i, term_i, searches, written, member_vars,
                    retry_vars, exc,
                    gen, page, page_attempts, offset, yielded, resp >>

(* A cursor that gives a page one attempt more. *)
MayRetryPage_OneMore(n) == n <= max_page_attempts

(* get_using_paged, line 187: may the page be fetched again? *)
MayRetryPage(n) == n < max_page_attempts

(* get_using_paged, lines 183-192: yield r.json(); on a decode failure the  *)
(* same page is fetched again, or ValueError is raised.                     *)
PagedGot ==
    /\ pc = "paged_got"
    /\ IF Decodes(resp)
       THEN /\ yielded' = Append(yielded, page)
            /\ pc' = BodyLabel
            /\ exc' = exc
            /\ UNCHANGED page_attempts
       ELSE /\ page_attempts' = page_attempts + 1
            /\ IF MayRetryPage(page_attempts + 1)
               THEN pc' = "paged_fetch" /\ exc' = exc
               ELSE Raise("ValueError")
            /\ UNCHANGED yielded
    /\ UNCHANGED << ctx_vars, strategy_vars, retry_vars,
                    gen, page, offset, calls, resp >>

(* get_using_paged, lines 193-197. *)
PagedResume ==
    /\ pc = "paged_resume"
    /\ LET eor == end_of_records_check(resp)
       IN  IF eor = "False"
           THEN /\ page_attempts' = 0
                /\ page' = page + 1
                /\ pc' = "paged_fetch"
                /\ exc' = exc
           ELSE IF eor = "True"
           THEN /\ pc' = AfterLabel
                /\ exc' = exc
                /\ UNCHANGED << page, page_attempts >>
           ELSE /\ Raise(eor)
                /\ UNCHANGED << page, page_attempts >>
    /\ UNCHANGED << ctx_vars, strategy_vars, retry_vars,
                    gen, offset, calls, yielded, resp >>

----------------------------------------------------------------------------
(* syncs.py: the incremental strategies *)

(* start.start_of('day'). *)
start_of_day(t) == (t \div DayLen) * DayLen

(* discrete_days_since_start, lines 226-232: the loop from search_term. *)
RECURSIVE DaysFrom(_)
DaysFrom(search_term) ==
    IF search_term <= now
    THEN << search_term >> \o DaysFrom(search_term + DayLen)
    ELSE << >>

(* A range of days that begins at the start itself, not at its midnight. *)
discrete_days_since_start_FromStart(t) == DaysFrom(t)

(* discrete_days_since_start, lines 225-226 and 232. *)
discrete_days_since_start(t) == DaysFrom(start_of_day(t))

(* sync_end_time, lines 74-80: the window, and the generator over it. *)
SyncEndTime ==
    /\ pc = "sync_end_time"
    /\ bookmark_read' = state[stream.tap_stream_id]
    /\ start' = update_start_date_bookmark(stream.tap_stream_id)
    /\ end' = now_seconds
    /\ sets' = << >>
    /\ StartGen("offset")
    /\ UNCHANGED << ctx_vars, retry_vars, exc, idx, stream, days, day_i, term_i,
                    counts, member_vars >>

(* sync_end_time, lines 81-82: the body of the loop over the batches. *)
EndTimeBody ==
    /\ pc = "end_time_body"
    /\ written' = written + 1
    /\ set_bookmark(stream.tap_stream_id, ts_to_dt(end))
    /\ pc' = "offset_resume"
    /\ UNCHANGED << authed_get_binding, api_outages, config, now, persisted, write_states,
                    selected_catalog, cache, member_counts, log,
                    retry_vars, gen_vars, exc,
                    idx, stream, start, end, bookmark_read, days, day_i, term_i,
                    fetches, searches, member_vars >>

(* sync_member_count_limits, lines 102-104. *)
SyncMemberCountLimits ==
    /\ pc = "sync_member_count_limits"
    /\ bookmark_read' = state[stream.tap_stream_id]
    /\ sets' = << >>
    /\ StartGen("limits")
    /\ UNCHANGED << ctx_vars, retry_vars, exc, idx, stream, start, end,
                    days, day_i, term_i,
                    counts, member_vars >>

(* sync_member_count_limits, line 105: the body of the loop. *)
LimitsBody ==
    /\ pc = "limits_body"
    /\ written' = written + 1
    /\ pc' = "limits_resume"
    /\ UNCHANGED << ctx_vars, retry_vars, gen_vars, exc, idx, stream, start, end,
                    bookmark_read, sets, days, day_i, term_i,
                    fetches, searches, member_vars >>

(* sync_timestamp, lines 41-43: the bookmark and the days to search. *)
SyncTimestamp ==
    /\ pc = "sync_timestamp"
    /\ bookmark_read' = state[stream.tap_stream_id]
    /\ start' = update_start_date_bookmark(stream.tap_stream_id)
    /\ days' = discrete_days_since_start(update_start_date_bookmark(stream.tap_stream_id))
    /\ day_i' = 1
    /\ term_i' = 1
    /\ sets' = << >>
    /\ pc' = "timestamp_day"
    /\ UNCHANGED << ctx_vars, retry_vars, gen_vars, exc, idx, stream, end,
                    counts, member_vars >>

(* sync_timestamp, line 43: the next day, or the end of the strategy. *)
TimestampDay ==
    /\ pc = "timestamp_day"
    /\ IF day_i <= Len(days)
       THEN pc' = "timestamp_term" /\ term_i' = 1
       ELSE pc' = "write_state" /\ UNCHANGED term_i
    /\ UNCHANGED << ctx_vars, retry_vars, gen_vars, exc, idx, stream, start, end,
                    bookmark_read, sets, days, day_i,
                    counts, member_vars >>

(* sync_timestamp, lines 44-50: the next search term of the day is given to *)
(* write_paged_records (line 58 creates the generator), or the terms are    *)
(* done.                                                                    *)
(* A day that is searched by creation date only. *)
search_terms_CreatedOnly == << "created_at" >>

search_terms == << "created_at", "updated_at" >>

TimestampTerm ==
    /\ pc = "timestamp_term"
    /\ IF term_i <= Len(search_terms)
       THEN /\ StartGen("paged")
            /\ searches' = searches + 1
       ELSE /\ pc' = "timestamp_set"
            /\ UNCHANGED << gen_vars, searches >>
    /\ UNCHANGED << ctx_vars, retry_vars, exc, idx, stream, start, end,
                    bookmark_read, sets, days, day_i, term_i,
                    fetches, written, member_vars >>

(* write_paged_records, lines 60 and 64: results = res.get('recipients') is *)
(* true of a list that is not empty.                                        *)
HasResults(body) == IsSome(body.recipients) /\ Val(body.recipients) # 0

(* write_paged_records, lines 59-66: the body of the loop over the pages. *)
PagedRecordsBody ==
    /\ pc = "paged_records_body"
    /\ written' = IF HasResults(resp.body) THEN written + 1 ELSE written
    /\ pc' = "paged_resume"
    /\ UNCHANGED << ctx_vars, retry_vars, gen_vars, exc, idx, stream, start, end,
                    bookmark_read, sets, days, day_i, term_i,
                    fetches, searches, member_vars >>

(* write_paged_records returns: to sync_timestamp, line 44, or to           *)
(* get_and_write_members, line 131.                                         *)
PagedRecordsReturn ==
    /\ pc = "paged_records_return"
    /\ IF stream.bookmark = "timestamp"
       THEN /\ term_i' = term_i + 1
            /\ pc' = "timestamp_term"
            /\ NoGen
       ELSE /\ pc' = "save_member_count_state"
            /\ UNCHANGED << term_i, gen_vars >>
    /\ UNCHANGED << ctx_vars, retry_vars, exc, idx, stream, start, end,
                    bookmark_read, sets, days, day_i, counts, member_vars >>

(* sync_timestamp, line 51. *)
TimestampSet ==
    /\ pc = "timestamp_set"
    /\ set_bookmark(stream.tap_stream_id, now_date_str)
    /\ day_i' = day_i + 1
    /\ pc' = "timestamp_day"
    /\ UNCHANGED << authed_get_binding, api_outages, config, now, persisted, write_states,
                    selected_catalog, cache, member_counts, log,
                    retry_vars, gen_vars, exc,
                    idx, stream, start, end, bookmark_read, days, term_i,
                    counts, member_vars >>

----------------------------------------------------------------------------
(* syncs.py: the conditional refresh *)

(* utils.find_old_list_count(list['id'], bookmark): the member count the    *)
(* bookmark of the stream records for the parent entity, 0 when none.       *)
find_old_list_count(id, recorded) == recorded[id]

(* A save that records nothing. *)
save_member_count_state_Dropped(list, s) == member_counts

(* ctx.save_member_count_state(list, stream). *)
save_member_count_state(list, s) ==
    [member_counts EXCEPT ![s.tap_stream_id][list.id] = list.member_count]

(* A cache that keeps only the first entity of the latest batch. *)
update_cache_LatestOnly(result, id) ==
    [cache EXCEPT ![trim_members_all(id)] = IF result = << >> THEN << >> ELSE << result[1] >>]

(* ctx.update_cache(result, tap_stream_id). *)
update_cache(result, id) ==
    [cache EXCEPT ![trim_members_all(id)] = @ \o result]

(* sync_member_count, lines 85-87: the parent entities of the stream type. *)
SyncMemberCount ==
    /\ pc = "sync_member_count"
    /\ entity_i' = 1
    /\ pc' = "member_count_list"
    /\ UNCHANGED << ctx_vars, retry_vars, gen_vars, exc, idx, stream, start, end,
                    bookmark_read, sets, days, day_i, term_i, counts,
                    old_list_count, refreshed >>

(* A refresh on any change of the count. *)
ShouldRefresh_OnChange(list, old) == list.member_count # old

(* sync_member_count, line 91. *)
ShouldRefresh(list, old) == list.member_count > old

(* sync_member_count, lines 87-98: the next parent entity is refreshed or   *)
(* passed over, or the strategy returns.                                    *)
MemberCountList ==
    /\ pc = "member_count_list"
    /\ LET lists == cache[trim_members_all(stream.tap_stream_id)]
       IN  IF entity_i <= Len(lists)
           THEN /\ old_list_count' =
                      find_old_list_count(lists[entity_i].id,
                                          member_counts[stream.tap_stream_id])
                /\ IF ShouldRefresh(lists[entity_i],
                                    find_old_list_count(lists[entity_i].id,
                                          member_counts[stream.tap_stream_id]))
                   THEN /\ pc' = "get_and_write_members"
                        /\ refreshed' = Append(refreshed, lists[entity_i].id)
                        /\ UNCHANGED entity_i
                   ELSE /\ entity_i' = entity_i + 1
                        /\ UNCHANGED << pc, refreshed >>
           ELSE /\ pc' = "write_state"
                /\ UNCHANGED member_vars
    /\ UNCHANGED << ctx_vars, retry_vars, gen_vars, exc, idx, stream, start, end,
                    bookmark_read, sets, days, day_i, term_i, counts >>

(* get_and_write_members, lines 117-129: one call of retry_get for          *)
(* groups_members, write_paged_records for any other stream.                *)
GetAndWriteMembers ==
    /\ pc = "get_and_write_members"
    /\ IF stream.tap_stream_id = GROUPS_MEMBERS
       THEN /\ gen' = "single"
            /\ page' = 0
            /\ page_attempts' = 0
            /\ offset' = 0
            /\ calls' = << cache[trim_members_all(stream.tap_stream_id)][entity_i].id >>
            /\ yielded' = << >>
            /\ resp' = NoResponse
            /\ fetches' = fetches + 1
            /\ pc' = "retry_get"
            /\ UNCHANGED searches
       ELSE /\ StartGen("paged")
            /\ searches' = searches + 1
            /\ UNCHANGED fetches
    /\ UNCHANGED << ctx_vars, retry_vars, exc, idx, stream, start, end,
                    bookmark_read, sets, days, day_i, term_i, written, member_vars >>

(* get_and_write_members, lines 122-125: .json(), get_results_from_payload  *)
(* and write_records.                                                       *)
MembersGot ==
    /\ pc = "members_got"
    /\ IF Decodes(resp)
       THEN /\ yielded' = << get_results_from_payload(resp.body) >>
            /\ written' = written + 1
            /\ pc' = "save_member_count_state"
            /\ exc' = exc
       ELSE /\ Raise("JSONDecodeError")
            /\ UNCHANGED << yielded, written >>
    /\ UNCHANGED << ctx_vars, retry_vars, idx, stream, start, end,
                    bookmark_read, sets, days, day_i, term_i, fetches, searches,
                    member_vars, gen, page, page_attempts, offset, calls, resp >>

(* get_and_write_members, line 131, and back to the loop of                 *)
(* sync_member_count.                                                       *)
SaveMemberCountState ==
    /\ pc = "save_member_count_state"
    /\ member_counts' =
          save_member_count_state(
              cache[trim_members_all(stream.tap_stream_id)][entity_i], stream)
    /\ entity_i' = entity_i + 1
    /\ pc' = "member_count_list"
    /\ NoGen
    /\ UNCHANGED << authed_get_binding, api_outages, config, now, state, persisted,
                    write_states, selected_catalog, cache, log,
                    retry_vars, exc, idx, stream, start, end,
                    bookmark_read, sets, days, day_i, term_i, counts,
                    old_list_count, refreshed >>

----------------------------------------------------------------------------
(* syncs.py: the orchestrator *)

(* A test that takes only the time bookmarks for bookmarks. *)
HasBookmark_TimeOnly(s) == s.bookmark \in {"timestamp", "end_time"}

(* sync_alls, line 110, and sync_incrementals, line 30: stream.bookmark as  *)
(* a condition.                                                             *)
HasBookmark(s) == s.bookmark # NoBookmark

(* sync, line 23. *)
Sync ==
    /\ pc = "sync"
    /\ idx' = 1
    /\ pc' = "sync_alls"
    /\ UNCHANGED << ctx_vars, retry_vars, gen_vars, exc, stream, start, end,
                    bookmark_read, sets, days, day_i, term_i, counts, member_vars >>

(* pendulum.parse(config['start_date']).int_timestamp, in get_alls. *)
start_date_timestamp == config.start_date

(* sync_alls, lines 108-112, and get_alls, lines 161-165: the next catalog  *)
(* entry; one without a bookmark gets the cursor over the whole range.      *)
(* After the last entry sync goes on at line 24.                            *)
SyncAlls ==
    /\ pc = "sync_alls"
    /\ IF idx <= Len(selected_catalog)
       THEN IF ~HasBookmark(selected_catalog[idx])
            THEN /\ stream' = selected_catalog[idx]
                 /\ start' = start_date_timestamp
                 /\ end' = now_seconds
                 /\ log' = Append(log, << "alls", selected_catalog[idx].tap_stream_id >>)
                 /\ StartGen("offset")
                 /\ UNCHANGED idx
            ELSE /\ idx' = idx + 1
                 /\ UNCHANGED << stream, start, end, log, gen_vars, pc >>
       ELSE /\ idx' = 1
            /\ pc' = "sync_incrementals"
            /\ UNCHANGED << stream, start, end, log, gen_vars >>
    /\ UNCHANGED << authed_get_binding, api_outages, config, now, state, persisted,
                    write_states, selected_catalog, cache, member_counts,
                    retry_vars, exc, bookmark_read, sets, days, day_i, term_i,
                    counts, member_vars >>

(* sync_alls, lines 113-114: the body of the loop over the batches. *)
AllsBody ==
    /\ pc = "alls_body"
    /\ written' = written + 1
    /\ cache' = update_cache(resp.body.entities, stream.tap_stream_id)
    /\ pc' = "offset_resume"
    /\ UNCHANGED << authed_get_binding, api_outages, config, now, state, persisted,
                    write_states, selected_catalog, member_counts, log,
                    retry_vars, gen_vars, exc, idx, stream, start, end,
                    bookmark_read, sets, days, day_i, term_i, fetches, searches,
                    member_vars >>

(* sync_alls, line 112: the cursor is exhausted, on to the next entry. *)
AllsNext ==
    /\ pc = "alls_next"
    /\ log' = Append(log, << "alls_done", stream.tap_stream_id >>)
    /\ idx' = idx + 1
    /\ pc' = "sync_alls"
    /\ NoGen
    /\ NoStrategy
    /\ UNCHANGED << authed_get_binding, api_outages, config, now, state, persisted,
                    write_states, selected_catalog, cache, member_counts,
                    retry_vars, exc >>

(* sync_incrementals, line 31: the method sync_<tag>. *)
StrategyLabel(tag) ==
    IF tag = "timestamp" THEN "sync_timestamp"
    ELSE IF tag = "end_time" THEN "sync_end_time"
    ELSE IF tag = "member_count" THEN "sync_member_count"
    ELSE "sync_member_count_limits"

(* sync_incrementals, lines 28-32: the next catalog entry; one with a       *)
(* bookmark is dispatched to sync_<tag>.  After the last entry sync goes on *)
(* at line 25.                                                              *)
SyncIncrementals ==
    /\ pc = "sync_incrementals"
    /\ IF idx <= Len(selected_catalog)
       THEN IF HasBookmark(selected_catalog[idx])
            THEN /\ stream' = selected_catalog[idx]
                 /\ log' = Append(log, << "incremental",
                                          selected_catalog[idx].tap_stream_id >>)
                 /\ pc' = StrategyLabel(selected_catalog[idx].bookmark)
                 /\ UNCHANGED idx
            ELSE /\ idx' = idx + 1
                 /\ UNCHANGED << stream, log, pc >>
       ELSE /\ pc' = "sync_write_state"
            /\ UNCHANGED << stream, log, idx >>
    /\ UNCHANGED << authed_get_binding, api_outages, config, now, state, persisted,
                    write_states, selected_catalog, cache, member_counts,
                    retry_vars, gen_vars, exc, start, end,
                    bookmark_read, sets, days, day_i, term_i, counts, member_vars >>

(* sync_incrementals, line 34: the strategy has returned. *)
WriteState ==
    /\ pc = "write_state"
    /\ persisted' = ctx_state
    /\ write_states' = write_states + 1
    /\ log' = Append(log, << "write_state", stream.tap_stream_id >>)
    /\ idx' = idx + 1
    /\ pc' = "sync_incrementals"
    /\ NoGen
    /\ NoStrategy
    /\ UNCHANGED << authed_get_binding, api_outages, config, now, state, selected_catalog,
                    cache, member_counts, retry_vars, exc >>

(* sync, line 25. *)
SyncWriteState ==
    /\ pc = "sync_write_state"
    /\ persisted' = ctx_state
    /\ write_states' = write_states + 1
    /\ log' = Append(log, << "write_state", "sync" >>)
    /\ pc' = "done"
    /\ UNCHANGED << authed_get_binding, api_outages, config, now, state, selected_catalog,
                    cache, member_counts, retry_vars, gen_vars, strategy_vars, exc >>

Next ==
    \/ Sync
    \/ SyncAlls
    \/ AllsBody
    \/ AllsNext
    \/ SyncIncrementals
    \/ SyncMemberCount
    \/ MemberCountList
    \/ GetAndWriteMembers
    \/ MembersGot
    \/ SaveMemberCountState
    \/ WriteState
    \/ SyncWriteState
    \/ SyncTimestamp
    \/ TimestampDay
    \/ TimestampTerm
    \/ PagedRecordsBody
    \/ PagedRecordsReturn
    \/ TimestampSet
    \/ SyncEndTime
    \/ EndTimeBody
    \/ SyncMemberCountLimits
    \/ LimitsBody
    \/ PagedFetch
    \/ PagedGot
    \/ PagedResume
    \/ OffsetFetch
    \/ OffsetGot
    \/ OffsetResume
    \/ LimitsFetch
    \/ LimitsGot
    \/ LimitsResume
    \/ RetryGetEnter
    \/ RetryWhile
    \/ RetryAttempt

Spec == Init /\ [][Next]_vars

----------------------------------------------------------------------------
(* Properties. *)

GotLabels == {"paged_got", "offset_got", "limits_got"}

InRetryGet == pc \in {"retry_while", "retry_attempt"}

(* retry_get raised after its last attempt (its frame is still there). *)
RetryGetRaised == pc = "failed" /\ exc = "ValueError" /\ attempt > 0

(* C1: every value a strategy gives to set_bookmark is at least the         *)
(* bookmark it read when it started, whatever that bookmark was.            *)
C1_BookmarkNeverRegresses ==
    IsSome(bookmark_read) =>
        \A i \in 1 .. Len(sets) : sets[i] >= Val(bookmark_read)

(* C2: sync_end_time sets the bookmark only when the window is exhausted:   *)
(* never after a full batch, which has another batch behind it, so that a   *)
(* failed run of the strategy leaves the bookmark as it was read.           *)
C2_BookmarkAfterWindowOnly ==
    stream.bookmark = "end_time" =>
        /\ sets # << >> => yielded[Len(yielded)] < 500
        /\ pc = "failed" => state[stream.tap_stream_id] = bookmark_read

(* C3: retry_get goes round its loop only on a 5xx answer, and returns any  *)
(* other answer at once: what the generator gets is the answer last         *)
(* received, it is not a 5xx, and no request or sleep of that call is left. *)
C3_ReturnsFirstNon5xx ==
    /\ (InRetryGet /\ requests >= 1) => r.status_code >= 500
    /\ (InRetryGet /\ requests = 0) => r = NoResponse
    /\ pc \in GotLabels =>
          /\ resp = r
          /\ resp.status_code < 500
          /\ attempt = 0 /\ requests = 0 /\ sleeps = << >>

C3_Witness ==
    /\ pc = "paged_got"
    /\ api_outages
    /\ resp.status_code = 404
    /\ resp = r

(* C4: a retry_get call sends at most 20 requests; when all 20 are answered *)
(* with a 5xx it raises, and what it returns is never a 5xx.                *)
C4_TwentyRequestsThenRaise ==
    /\ requests <= 20
    /\ pc = "retry_attempt" => requests < 20
    /\ RetryGetRaised => requests = 20 /\ r.status_code >= 500
    /\ (pc = "retry_while" /\ requests = 20) => attempt = 21
    /\ resp.status_code < 500

C4_Witness == RetryGetRaised /\ requests = 20

(* C5: the sleeps of one retry_get call are 120, 180, 270, ...: the first   *)
(* is 120, each next one is 3/2 of the one before and larger, there is one  *)
(* per 5xx answer and there are at most 20.                                 *)
FloatTimes(x, n) == Float(x.whole * n, x.frac * n)

C5_BackoffSequence ==
    /\ Len(sleeps) <= 20
    /\ Len(sleeps) = requests
    /\ Len(sleeps) >= 1 => sleeps[1] = Float(120, 0)
    /\ Len(sleeps) >= 2 => sleeps[2] = Float(180, 0)
    /\ Len(sleeps) >= 3 => sleeps[3] = Float(270, 0)
    /\ Len(sleeps) >= 5 => sleeps[5] = Float(607, FracUnit \div 2)
    /\ \A k \in 1 .. Len(sleeps) - 1 :
          /\ FloatTimes(sleeps[k + 1], 2) = FloatTimes(sleeps[k], 3)
          /\ FloatLess(sleeps[k], sleeps[k + 1])

C5_Witness == Len(sleeps) = 20 /\ RetryGetRaised

Last(seq) == seq[Len(seq)]

(* C6: get_using_offset fetches at offsets 0, 500, 1000, ..., yields every  *)
(* batch it fetched, fetches again only after a batch of at least 500 and   *)
(* ends only on a shorter one; batches of 500 and 10 make two fetches, the  *)
(* last at offset 500.                                                      *)
C6_OffsetWindowCursor ==
    gen = "offset" =>
        /\ \A k \in 1 .. Len(calls) : calls[k] = 500 * (k - 1)
        /\ Len(yielded) <= Len(calls) /\ Len(calls) <= Len(yielded) + 1
        /\ pc \in {"end_time_body", "offset_resume", "write_state"} =>
              Len(yielded) = Len(calls)
        /\ \A k \in 1 .. Len(calls) - 1 : yielded[k] >= 500
        /\ (pc = "offset_fetch" /\ yielded # << >>) =>
              Last(yielded) >= 500 /\ offset = 500 * Len(calls)
        /\ pc \in {"offset_got", "end_time_body", "offset_resume", "write_state"} =>
              offset = Last(calls)
        /\ pc = "write_state" => Last(yielded) < 500
        /\ (pc = "write_state" /\ yielded = << 500, 10 >>) =>
              calls = << 0, 500 >> /\ offset = 500

C6_Witness ==
    /\ gen = "offset"
    /\ pc = "write_state"
    /\ yielded = << 500, 10 >>
    /\ calls = << 0, 500 >>

(* C7: get_members_limits fetches at offsets 0, 250000, 500000, ..., goes   *)
(* on after every batch that is not empty, short or not, and ends only on   *)
(* an empty one.                                                            *)
C7_BulkOffsetCursor ==
    gen = "limits" =>
        /\ \A k \in 1 .. Len(calls) : calls[k] = 250000 * (k - 1)
        /\ Len(yielded) <= Len(calls) /\ Len(calls) <= Len(yielded) + 1
        /\ \A k \in 1 .. Len(calls) - 1 : yielded[k] > 0
        /\ (pc = "limits_fetch" /\ yielded # << >>) =>
              Last(yielded) > 0 /\ offset = 250000 * Len(calls)
        /\ pc \in {"limits_got", "limits_body", "limits_resume", "write_state"} =>
              offset = Last(calls)
        /\ pc = "write_state" => Last(yielded) = 0

C7_Witness ==
    /\ gen = "limits"
    /\ pc = "write_state"
    /\ yielded = << 10, 250000, 0 >>
    /\ calls = << 0, 250000, 500000 >>

(* get_using_paged raised after the last decode failure of a page. *)
PagedRaised == gen = "paged" /\ pc = "failed" /\ exc = "ValueError" /\ attempt = 0

(* C8: get_using_paged fetches page 1 first and after every fetch the same  *)
(* page or the next; page_attempts counts the fetches of the current page   *)
(* that did not decode, all of them the latest fetches; the third such      *)
(* fetch raises, and nothing raises before it; a decoded page is yielded    *)
(* once, and after it the cursor goes to the next page with the count at 0  *)
(* or ends without another fetch.                                           *)
C8_PagedCursor ==
    gen = "paged" =>
        /\ calls # << >> => calls[1] = 1
        /\ \A k \in 1 .. Len(calls) - 1 : calls[k + 1] \in {calls[k], calls[k] + 1}
        /\ \A k \in 1 .. Len(yielded) : yielded[k] = k
        /\ PagedRaised <=> page_attempts = 3
        /\ page_attempts <= 3
        /\ pc = "paged_fetch" =>
              /\ page_attempts <= Len(calls)
              /\ \A k \in 1 .. Len(calls) :
                    k > Len(calls) - page_attempts => calls[k] = page
              /\ Len(calls) > page_attempts =>
                    /\ calls[Len(calls) - page_attempts] = page - 1
                    /\ Last(yielded) = page - 1
        /\ PagedRaised =>
              /\ Len(calls) >= 3
              /\ \A k \in 1 .. Len(calls) : k > Len(calls) - 3 => calls[k] = page
              /\ Len(yielded) = page - 1
        /\ pc \in {"paged_records_body", "paged_resume", "paged_records_return"} =>
              /\ Last(calls) = page
              /\ Last(yielded) = page

C8_Witness ==
    /\ PagedRaised
    /\ calls = << 1, 2, 2, 2 >>
    /\ yielded = << 1 >>

HasFirstError(rr) == IsSome(rr.body.errors) /\ Len(Val(rr.body.errors)) >= 1

FirstError(rr) == Val(rr.body.errors)[1]

(* The latest decoded response of get_using_paged. *)
PagedDecoded == gen = "paged" /\ Decodes(resp)

(* What end_of_records_check made of it: after False the cursor is at the   *)
(* next fetch, after True write_paged_records returns.                      *)
SaidFalse == pc = "paged_fetch"
SaidTrue  == pc = "paged_records_return"
CheckRaised == pc = "failed" /\ exc \notin {"ValueError", "AttributeError"}

(* C9: end_of_records_check is true of every response whose body has        *)
(* recipient_count 0, whatever its status and its other fields.             *)
C9_ZeroCountEndsRecords ==
    (PagedDecoded /\ resp.body.recipient_count = Some(0)) =>
        ~SaidFalse /\ ~CheckRaised

(* C10, as claimed: end_of_records_check is true of a 404 whose first       *)
(* error message is "No more pages" and false of a 404 with any other       *)
(* first error message.                                                     *)
C10_SentinelOnly ==
    (PagedDecoded /\ resp.status_code = 404 /\ HasFirstError(resp)) =>
        IF FirstError(resp) = "No more pages"
        THEN ~SaidFalse /\ ~CheckRaised
        ELSE ~SaidTrue /\ ~CheckRaised

(* C10, amended: ... and false of a 404 with any other first error message  *)
(* whose body has no recipient_count of 0.                                  *)
C10_SentinelOrZeroCount ==
    (PagedDecoded /\ resp.status_code = 404 /\ HasFirstError(resp)) =>
        IF FirstError(resp) = "No more pages"
        THEN ~SaidFalse /\ ~CheckRaised
        ELSE IF resp.body.recipient_count # Some(0)
        THEN ~SaidTrue /\ ~CheckRaised
        ELSE TRUE

C10_Witness ==
    /\ PagedDecoded
    /\ SaidTrue
    /\ resp.status_code = 404
    /\ HasFirstError(resp)
    /\ FirstError(resp) = "No more pages"
    /\ resp.body.recipient_count = None

(* The calendar day a timestamp is in. *)
DayOf(t) == t \div DayLen

(* The days of the inclusive range from the day of `from` through the day   *)
(* of `to`: none when the first is after the second.                        *)
DaysInRange(from, to) ==
    IF DayOf(from) <= DayOf(to) THEN DayOf(to) - DayOf(from) + 1 ELSE 0

(* sync_timestamp has returned to sync_incrementals. *)
TimestampDone == stream.bookmark = "timestamp" /\ pc = "write_state"

(* C11, as claimed: a sync_timestamp that completes has issued two fetches  *)
(* for every day of the inclusive range from the day of the bookmark        *)
(* through now, and has left the bookmark at now.                           *)
C11_TwoFetchesPerDay ==
    (TimestampDone /\ DayOf(start) <= DayOf(now)) =>
        /\ fetches = DaysInRange(start, now) * 2
        /\ state[stream.tap_stream_id] = Some(now)

(* C11, amended: a sync_timestamp that completes has run two paged searches *)
(* for every day of that range, none when the day of the bookmark is after  *)
(* now; every search that has returned issued at least one fetch, one per   *)
(* page it asked for, so the fetches are at least the searches; the         *)
(* bookmark is left at now when a day was searched and as it was otherwise. *)
C11_TwoSearchesPerDay ==
    stream.bookmark = "timestamp" =>
        /\ fetches >= searches - 1
        /\ pc = "paged_records_return" => Len(calls) >= 1 /\ fetches >= searches
        /\ TimestampDone =>
              /\ searches = DaysInRange(start, now) * 2
              /\ fetches >= searches
              /\ state[stream.tap_stream_id] =
                    IF DaysInRange(start, now) > 0 THEN Some(now) ELSE bookmark_read

(* Bookmark in day 0, now two days later: six searches of one page each. *)
C11_Witness ==
    /\ TimestampDone
    /\ bookmark_read = Some(1)
    /\ DayOf(now) = DayOf(1) + 2
    /\ searches = 6
    /\ fetches = 6
    /\ state[stream.tap_stream_id] = Some(now)

(* sync_timestamp is running, or has returned to sync_incrementals. *)
TimestampStarted == stream.bookmark = "timestamp" /\ pc # "sync_timestamp"

(* The calls of write_paged_records by the running sync_timestamp that have *)
(* returned: all that were made but the one whose cursor is still there.    *)
CompletedSearches == IF gen = "paged" THEN searches - 1 ELSE searches

(* Both searches of the current day have returned and line 51 is next. *)
BookmarkDue == pc = "timestamp_set" \/ (pc = "timestamp_term" /\ term_i = 3)

(* C17: sync_timestamp sets the bookmark once per searched day, after the   *)
(* second search of that day has returned and before the first search of    *)
(* the next day starts, never between the two searches of a day and never   *)
(* when there is no day to search; every value it sets is now, whatever the *)
(* searched day.                                                            *)
C17_BookmarkOncePerDay ==
    TimestampStarted =>
        /\ \A i \in 1 .. Len(sets) : sets[i] = now
        /\ Len(sets) * 2 <= CompletedSearches
        /\ Len(sets) = (CompletedSearches \div 2) - (IF BookmarkDue THEN 1 ELSE 0)
        /\ sets # << >> => state[stream.tap_stream_id] = Some(now)
        /\ sets = << >> => state[stream.tap_stream_id] = bookmark_read
        /\ TimestampDone => Len(sets) = DaysInRange(start, now)

(* The first day, which is not the day of now, has been searched twice and  *)
(* the bookmark set once, to now.                                           *)
C17_Witness ==
    /\ stream.bookmark = "timestamp"
    /\ pc = "timestamp_day"
    /\ searches = 2
    /\ sets = << now >>
    /\ days[1] # now

(* One of the two offset cursors holds an answer that is not JSON. *)
OffsetCursorGotBad ==
    /\ gen \in {"offset", "limits"}
    /\ resp # NoResponse
    /\ resp.body.kind = "bad"

(* C19: when get_using_offset or get_members_limits is handed an answer     *)
(* that is not JSON, the cursor raises at once (JSONDecodeError from the    *)
(* first, ValueError from the second): the answer is the one of the latest  *)
(* fetch, nothing is yielded for it and no fetch follows it; and no offset  *)
(* is ever fetched twice by one cursor.                                     *)
C19_OffsetDecodeFailureFatal ==
    /\ gen \in {"offset", "limits"} =>
          \A k \in 1 .. Len(calls) - 1 : calls[k] < calls[k + 1]
    /\ OffsetCursorGotBad =>
          /\ pc \in {"offset_got", "limits_got", "failed"}
          /\ Len(yielded) = Len(calls) - 1
          /\ offset = Last(calls)
          /\ pc = "failed" =>
                exc = (IF gen = "offset" THEN "JSONDecodeError" ELSE "ValueError")

(* get_using_offset raised on its second answer. *)
C19_Witness ==
    /\ OffsetCursorGotBad
    /\ gen = "offset"
    /\ pc = "failed"
    /\ exc = "JSONDecodeError"
    /\ calls = << 0, 500 >>
    /\ yielded = << 500 >>

(* C15: every call of authed_get gets as far as sending its request, and    *)
(* the headers it has built by then are the bearer credential and X-SGUID.  *)
C15_RequestSentWithBothHeaders ==
    /\ exc # "AttributeError"
    /\ headers # {} => headers = {"Authorization", "X-SGUID"}

(* The parent entities sync_member_count goes over, and the one it is at. *)
Parents == cache[trim_members_all(stream.tap_stream_id)]

AtParent == pc = "member_count_list" /\ entity_i <= Len(Parents)

Recorded(id) == member_counts[stream.tap_stream_id][id]

(* C12: when sync_member_count comes to a parent entity whose member_count  *)
(* is not greater than the count recorded for it, it goes on to the next    *)
(* entity at once: no fetch is issued, no cursor is created, no records are *)
(* written, and the recorded counts, the bookmarks and the persisted state  *)
(* stay as they are.                                                        *)
C12_NoRefreshWithoutGrowth ==
    [][ (AtParent /\ Parents[entity_i].member_count <= Recorded(Parents[entity_i].id))
          => /\ pc' = "member_count_list"
             /\ entity_i' = entity_i + 1
             /\ UNCHANGED << fetches, searches, written, refreshed, gen, calls,
                             member_counts, state, persisted, write_states, cache >>
      ]_vars

(* Recorded 10, live 10: the first parent entity was passed over. *)
C12_Witness ==
    /\ stream.bookmark = "member_count"
    /\ pc = "member_count_list"
    /\ entity_i = 2
    /\ Parents[1].member_count = 10
    /\ Recorded(Parents[1].id) = 10
    /\ old_list_count = 10
    /\ refreshed = << >>
    /\ fetches = 0
    /\ written = 0

(* get_and_write_members is running for the parent entity at entity_i, or   *)
(* has raised.                                                              *)
InRefresh ==
    /\ stream.bookmark = "member_count"
    /\ pc \notin {"sync_member_count", "member_count_list", "write_state"}

(* The fetch sequences started by the running sync_member_count: single     *)
(* fetches of groups_members, cursors of any other stream.                  *)
RefreshSequences ==
    IF stream.tap_stream_id = "groups_members" THEN fetches ELSE searches

(* C13: sync_member_count refreshes a parent entity only when its           *)
(* member_count is greater than the recorded count, and runs one fetch      *)
(* sequence for it; while that sequence runs, and when it has raised, the   *)
(* recorded count of the entity is still the old one; the new count is      *)
(* recorded for every entity whose refresh has returned.                    *)
C13_SavedAfterRefresh ==
    stream.bookmark = "member_count" =>
        /\ \A i \in 1 .. Len(refreshed) : \A j \in 1 .. Len(refreshed) :
               refreshed[i] = refreshed[j] => i = j
        /\ RefreshSequences =
               Len(refreshed) - (IF pc = "get_and_write_members" THEN 1 ELSE 0)
        /\ InRefresh =>
               /\ Last(refreshed) = Parents[entity_i].id
               /\ Parents[entity_i].member_count > old_list_count
               /\ Recorded(Parents[entity_i].id) = old_list_count
        /\ \A k \in 1 .. Len(Parents) :
               (k < entity_i /\ \E i \in 1 .. Len(refreshed) : refreshed[i] = Parents[k].id)
                  => Recorded(Parents[k].id) = Parents[k].member_count

(* Recorded 10, live 15: the first parent entity was refreshed and its new  *)
(* count recorded.                                                          *)
C13_Witness ==
    /\ stream.bookmark = "member_count"
    /\ pc = "member_count_list"
    /\ entity_i = 2
    /\ refreshed = << Parents[1].id >>
    /\ Parents[1].member_count = 15
    /\ old_list_count = 10
    /\ Recorded(Parents[1].id) = 15

(* get_and_write_members has started its fetch sequence. *)
Refreshing == InRefresh /\ pc # "get_and_write_members"

(* C18, as claimed: the fetch sequence of a refresh is a single fetch or    *)
(* the bulk-offset cursor get_members_limits, and no other cursor.          *)
C18_SingleOrBulkOffset ==
    Refreshing => gen \in {"single", "limits"}

(* C18, amended: the fetch sequence of a refresh is a single fetch, for     *)
(* groups_members, or the page cursor get_using_paged run by                *)
(* write_paged_records, for any other stream: pages from 1, never an        *)
(* offset; the bulk-offset cursor is not used for a refresh.                *)
C18_SingleOrPaged ==
    Refreshing =>
        /\ gen = (IF stream.tap_stream_id = "groups_members" THEN "single" ELSE "paged")
        /\ gen = "single" => calls = << Parents[entity_i].id >> /\ fetches = Len(refreshed)
        /\ gen = "paged" => (calls # << >> => calls[1] = 1) /\ offset = 0
        /\ pc \notin {"limits_fetch", "limits_got", "limits_body", "limits_resume",
                       "offset_fetch", "offset_got", "offset_resume"}

(* A refresh of the members of a segment has fetched its second page. *)
C18_Witness ==
    /\ Refreshing
    /\ stream.tap_stream_id = "segments_members"
    /\ gen = "paged"
    /\ pc = "paged_got"
    /\ calls = << 1, 2 >>

(* How often sync has done `what` for the stream `id`. *)
Count(what, id) ==
    Cardinality({ i \in 1 .. Len(log) : log[i] = << what, id >> })

Bookmarked == { i \in 1 .. Len(selected_catalog) : selected_catalog[i].bookmark # "none" }

(* C14: when sync has returned, every selected stream without a bookmark    *)
(* has had one fetch-everything pass and no strategy, every selected stream *)
(* with a bookmark one strategy and no pass; write_state was called right   *)
(* after each strategy returned and once more as the last thing, and no     *)
(* other time: one call per bookmarked stream, and one.                     *)
C14_WriteStatePerStrategyAndAtEnd ==
    /\ write_states = Cardinality({ i \in 1 .. Len(log) : log[i][1] = "write_state" })
    /\ pc = "done" =>
          /\ write_states = Cardinality(Bookmarked) + 1
          /\ \A i \in 1 .. Len(selected_catalog) :
                LET id == selected_catalog[i].tap_stream_id
                IN  IF i \in Bookmarked
                    THEN /\ Count("incremental", id) = 1
                         /\ Count("write_state", id) = 1
                         /\ Count("alls", id) = 0
                    ELSE /\ Count("alls", id) = 1
                         /\ Count("alls_done", id) = 1
                         /\ Count("incremental", id) = 0
                         /\ Count("write_state", id) = 0
          /\ \A i \in 1 .. Len(log) :
                log[i][1] = "incremental" =>
                    i < Len(log) /\ log[i + 1] = << "write_state", log[i][2] >>
          /\ Last(log) = << "write_state", "sync" >>
          /\ Count("write_state", "sync") = 1
          /\ persisted = ctx_state

(* A pass over groups_all that cached parent entities, a strategy for       *)
(* global_suppressions, and two calls of write_state.                       *)
C14_Witness ==
    /\ pc = "done"
    /\ write_states = 2
    /\ log = << << "alls", "groups_all" >>, << "alls_done", "groups_all" >>,
                << "incremental", "global_suppressions" >>,
                << "write_state", "global_suppressions" >>,
                << "write_state", "sync" >> >>
    /\ cache["groups"] # << >>

(* The streams whose strategy has returned and whose state was written. *)
Completed == { id \in StreamIds : Count("write_state", id) >= 1 }

(* What holds once an exception has been raised under sync: it has ended    *)
(* the run; the last thing sync did was to start the pass or the strategy   *)
(* of the failing stream; the persisted state has every bookmark and count  *)
(* of the other streams as they are in memory, those of the completed ones  *)
(* included, and for the failing stream what its strategy started from.     *)
C16_AfterFailure ==
    exc # "none" =>
        /\ pc = "failed"
        /\ Last(log) \in { << "alls", stream.tap_stream_id >>,
                           << "incremental", stream.tap_stream_id >> }
        /\ stream.tap_stream_id \notin Completed
        /\ write_states = Cardinality(Completed)
        /\ \A id \in StreamIds \ {stream.tap_stream_id} :
              persisted.bookmarks[id] = state[id]
        /\ \A id \in MemberStreamIds \ {stream.tap_stream_id} :
              persisted.member_counts[id] = member_counts[id]
        /\ stream.bookmark \in {"timestamp", "end_time", "member_count_limits"} =>
              persisted.bookmarks[stream.tap_stream_id] = bookmark_read
        /\ stream.bookmark = "member_count" =>
              \A e \in EntityIds :
                  (\A i \in 1 .. Len(refreshed) : refreshed[i] # e) =>
                      persisted.member_counts[stream.tap_stream_id][e] = Recorded(e)

(* C16: an exception raised while a stream is synced ends sync: no step     *)
(* follows it, so no fetch is issued and write_state is not called after    *)
(* it; the persisted state is the one written after the last stream that    *)
(* completed, with the bookmarks of the completed streams in it.            *)
C16_FailureEndsSync ==
    /\ []C16_AfterFailure
    /\ [][ pc = "failed" => UNCHANGED << fetches, write_states, persisted, log >> ]_vars

(* global_suppressions completed and its bookmark was persisted; then       *)
(* lists_members failed on a malformed response.                            *)
C16_Witness ==
    /\ pc = "failed"
    /\ exc = "ValueError"
    /\ stream.tap_stream_id = "lists_members"
    /\ resp.body.kind = "bad"
    /\ Completed = {"global_suppressions"}
    /\ write_states = 1
    /\ persisted.bookmarks["global_suppressions"] = Some(now)

(* sync_incrementals has dispatched a strategy. *)
IncrementalsStarted == \E i \in 1 .. Len(log) : log[i][1] = "incremental"

(* The selected streams without a bookmark. *)
Unbookmarked ==
    { selected_catalog[i].tap_stream_id :
        i \in { j \in 1 .. Len(selected_catalog) : selected_catalog[j].bookmark = "none" } }

(* What holds of the passes and the cache: every start and end of a pass is *)
(* before every strategy and every write_state; once a strategy has been    *)
(* dispatched, every selected stream without a bookmark has had its whole   *)
(* pass; at the end of a pass the cache of the stream type holds the        *)
(* entities the pass fetched; outside the passes no cursor of a pass is     *)
(* there.                                                                   *)
C20_PassesThenStrategies ==
    /\ \A i \in 1 .. Len(log) : \A j \in 1 .. Len(log) :
          (log[i][1] \in {"alls", "alls_done"} /\ log[j][1] \in {"incremental", "write_state"})
             => i < j
    /\ IncrementalsStarted =>
          \A id \in Unbookmarked : Count("alls", id) = 1 /\ Count("alls_done", id) = 1
    /\ pc = "alls_next" =>
          /\ Parents = resp.body.entities
          /\ Len(Parents) = Last(yielded)
    /\ pc \in {"sync_member_count", "member_count_list", "get_and_write_members"} =>
          /\ IncrementalsStarted
          /\ Len(Parents) <= Cardinality(EntityIds)
          /\ Parents # << >> => Unbookmarked # {}

(* C20: the fetch-everything passes of all selected streams without a       *)
(* bookmark, with their calls of update_cache, are over before the first    *)
(* strategy starts, wherever those streams are in the catalog; the cache is *)
(* changed only by the body of a pass, so what sync_member_count reads is   *)
(* what the passes of this run put there.                                   *)
C20_CacheFilledBeforeStrategies ==
    /\ []C20_PassesThenStrategies
    /\ [][ cache' # cache => (pc = "alls_body" /\ ~IncrementalsStarted) ]_vars

(* groups_members is selected before groups_all, and its strategy finds the *)
(* two groups of the pass in the cache.                                     *)
C20_Witness ==
    /\ selected_catalog[1].tap_stream_id = "groups_members"
    /\ pc = "member_count_list"
    /\ entity_i = 1
    /\ Len(Parents) = 2
    /\ log = << << "alls", "groups_all" >>, << "alls_done", "groups_all" >>,
                << "incremental", "groups_members" >> >>

====
